---- MODULE Spec2Model ----
(***************************************************************************)
(* sekai-pack (AppBinder): the Bundler (src/src/main.rs, Rust) and the     *)
(* Launcher Stub (the C program returned by generate_launcher_c), modelled *)
(* over one shared file system.                                            *)
(*                                                                         *)
(* A path is a tuple of names (<<"temp_build", "launcher">>); the file     *)
(* system maps the existing paths to nodes [k, d]: k is "file" or "dir",   *)
(* d the bytes of a file (the opaque content of a resource directory).     *)
(* Permission bits are not modelled; a step that only changes them moves   *)
(* the process on and can fail.                                            *)
(***************************************************************************)
EXTENDS Integers, Sequences, FiniteSets, TLC

VARIABLES fs, bundler, launcher, runs, produced

vars == <<fs, bundler, launcher, runs, produced>>

(***************************************************************************)
(* Bounds of the model.                                                    *)
(***************************************************************************)
\* command-line arguments after argv[0] of a Bundler invocation
MaxArgs == 3
\* Bundler invocations, one after the other, in one behaviour of SpecRuns
MaxRuns == 2
\* arguments after argv[0] of a launch in SpecLaunch
MaxArgv == 3
\* byte length of the stub the compiler writes
MaxStubLen == 2
\* sizeof(buffer) of the launcher's copy loop (4096 in the source), scaled
\* so that files of a few dozen bytes need several reads
BufSize == 3

Procs == {1, 2}

(***************************************************************************)
(* Bytes and the trailer.                                                  *)
(***************************************************************************)
RECURSIVE LEBytes(_, _)
LEBytes(n, k) == IF k = 0 THEN <<>> ELSE <<n % 256>> \o LEBytes(n \div 256, k - 1)

\* (resource_offset as u64).to_le_bytes()
to_le_bytes(n) == LEBytes(n, 8)

\* The launcher reads the trailer into a uint64_t on a little-endian machine.
\* Words below 2^24 are computed with; larger ones are only classified
\* (negative as off_t, or beyond every file size of the model).
IsSmall64(b) == \A i \in 4..8 : b[i] = 0

\* value of a 64-bit little-endian word whose upper five bytes are zero
Val64(b) == b[1] + 256 * b[2] + 65536 * b[3]

\* the word read as off_t (signed 64-bit) is negative
IsNeg64(b) == b[8] >= 128

(***************************************************************************)
(* The file system.                                                        *)
(***************************************************************************)
File(d) == [k |-> "file", d |-> d]
Dir(d) == [k |-> "dir", d |-> d]

Exists(f, q) == q \in DOMAIN f
IsDir(f, q) == q \in DOMAIN f /\ f[q].k = "dir"
IsFile(f, q) == q \in DOMAIN f /\ f[q].k = "file"

IsPrefix(a, b) == Len(a) <= Len(b) /\ SubSeq(b, 1, Len(a)) = a

Put(f, q, node) == [x \in DOMAIN f \cup {q} |-> IF x = q THEN node ELSE f[x]]
RemovePath(f, q) == [x \in DOMAIN f \ {q} |-> f[x]]
RemoveAll(f, q) == [x \in {y \in DOMAIN f : ~IsPrefix(q, y)} |-> f[x]]
Children(f, q) == {y \in DOMAIN f : Len(y) = Len(q) + 1 /\ IsPrefix(q, y)}

\* the immediate entries of directory q, by name
Tree(f, q) == [n \in {y[Len(y)] : y \in Children(f, q)} |-> f[q \o <<n>>]]

(***************************************************************************)
(* The external archiver: tar -czf FILE -C DIR . and tar -xzf FILE.  The   *)
(* archive of a tree is the gzip magic followed by one record per entry,   *)
(* <<name index, kind, length>> and the entry's bytes; extraction parses   *)
(* the records back and fails on anything else (an empty file included).   *)
(***************************************************************************)
EntryNames == <<"sekai.x86_64", "res">>
GzMagic == <<31, 139>>
KindCode(k) == IF k = "file" THEN 1 ELSE 2
KindOf(c) == IF c = 1 THEN "file" ELSE "dir"

RECURSIVE TarFrom(_, _)
TarFrom(tree, i) ==
    IF i > Len(EntryNames) THEN <<>>
    ELSE (IF EntryNames[i] \in DOMAIN tree
          THEN <<i, KindCode(tree[EntryNames[i]].k), Len(tree[EntryNames[i]].d)>>
               \o tree[EntryNames[i]].d
          ELSE <<>>) \o TarFrom(tree, i + 1)

TarCreate(tree) == GzMagic \o TarFrom(tree, 1)

EmptyTree == [n \in {} |-> File(<<>>)]

RECURSIVE UntarFrom(_)
UntarFrom(b) ==
    IF b = <<>> THEN [ok |-> TRUE, tree |-> EmptyTree]
    ELSE IF Len(b) < 3 \/ b[1] \notin 1..Len(EntryNames) \/ b[2] \notin {1, 2}
            \/ Len(b) < 3 + b[3]
         THEN [ok |-> FALSE, tree |-> EmptyTree]
         ELSE LET rest == UntarFrom(SubSeq(b, 4 + b[3], Len(b)))
                  node == [k |-> KindOf(b[2]), d |-> SubSeq(b, 4, 3 + b[3])]
              IN [ok |-> rest.ok,
                  tree |-> [n \in DOMAIN rest.tree \cup {EntryNames[b[1]]} |->
                              IF n = EntryNames[b[1]] THEN node ELSE rest.tree[n]]]

TarExtract(b) ==
    IF Len(b) < 2 \/ SubSeq(b, 1, 2) # GzMagic
    THEN [ok |-> FALSE, tree |-> EmptyTree]
    ELSE UntarFrom(SubSeq(b, 3, Len(b)))

\* the entries of tree written under directory q, over what is there
PutTree(f, q, tree) ==
    [x \in DOMAIN f \cup {q \o <<n>> : n \in DOMAIN tree} |->
        IF Len(x) = Len(q) + 1 /\ IsPrefix(q, x) /\ x[Len(x)] \in DOMAIN tree
        THEN tree[x[Len(x)]] ELSE f[x]]

(***************************************************************************)
(* The Bundler: main, create_bundled_app, create_resource_package.         *)
(***************************************************************************)
\* what a command line is made of: an existing file, an existing directory,
\* a path that does not exist, the option
Tokens == {"app", "res", "nope", "-o"}
CmdLines == UNION {[1..n -> Tokens] : n \in 0..MaxArgs}

AppBytes == <<7>>
ResBytes == <<9>>
InitFS == [q \in {<<"app">>, <<"res">>} |-> IF q = <<"app">> THEN File(AppBytes) ELSE Dir(ResBytes)]

\* what gcc can write for launcher.c
Stubs == UNION {[1..n -> {127}] : n \in 1..MaxStubLen}

LauncherC == <<35>>

temp_dir == <<"temp_build">>
temp_structure == <<"temp_structure">>

IdleBundler ==
    [pc |-> "idle", args |-> <<>>, main_exe |-> "", output |-> "",
     resource_dirs |-> <<>>, di |-> 1, launcher_binary |-> <<>>,
     resource_data |-> <<>>, exit |-> -1, err |-> "", stdout |-> <<>>,
     fs0 |-> InitFS, tools |-> {}, injected |-> FALSE, stub |-> <<>>]

\* the while loop of main over args[2..]
RECURSIVE ParseDirs(_, _)
ParseDirs(a, i) ==
    IF i > Len(a) THEN <<>>
    ELSE IF a[i] = "-o" THEN ParseDirs(a, i + 2)
         ELSE <<a[i]>> \o ParseDirs(a, i + 1)

\* args.iter().position(|x| x == "-o")
PositionO(a) == CHOOSE i \in 1..Len(a) : a[i] = "-o" /\ \A j \in 1..(i - 1) : a[j] # "-o"

\* Err(e) returned to main: eprintln and exit(1)
Failed(b, e) == [b EXCEPT !.pc = "done", !.exit = 1, !.err = e]

\* an I/O or tool failure the environment causes (ok = FALSE) is recorded
Env(b, ok) == [b EXCEPT !.injected = @ \/ ~ok]

\* a faulty IsResourceDir: the is_dir() test is dropped
IsResourceDir_ExistsOnly(f, dir) == Exists(f, <<dir>>)

\* dir_path.exists() && dir_path.is_dir()
IsResourceDir(f, dir) == Exists(f, <<dir>>) /\ IsDir(f, <<dir>>)

\* the inputs a Bundle File was made from: the main executable's bytes and
\* the resource directories (the paths that were directories), by name
InputsOf(b) ==
    [E |-> b.fs0[<<b.main_exe>>].d,
     D |-> [d \in {b.resource_dirs[i] : i \in {j \in 1..Len(b.resource_dirs) :
                                                IsDir(b.fs0, <<b.resource_dirs[j]>>)}} |->
              b.fs0[<<d>>]]]

NoLaunch == \A l \in Procs : launcher[l].pc \in {"idle", "off"}

\* the process is started with a command line (env::args, line 7); limit
\* bounds the invocations of one behaviour
BStart(p, cmd, limit) ==
    /\ bundler[p].pc = "idle"
    /\ runs < limit
    /\ NoLaunch
    /\ bundler' = [bundler EXCEPT ![p] =
                     [IdleBundler EXCEPT !.pc = "main", !.args = <<"sekai-pack">> \o cmd,
                                         !.fs0 = fs]]
    /\ runs' = runs + 1
    /\ UNCHANGED <<fs, launcher, produced>>

\* main, lines 9-49: usage, the output path, the resource directories, the
\* check of the main executable.  args[k] of the source is a[k + 1] here.
BMain(p) ==
    LET b == bundler[p]
        a == b.args
        has_o == \E i \in 1..Len(a) : a[i] = "-o"
    IN /\ b.pc = "main"
       /\ bundler' = [bundler EXCEPT ![p] =
            IF Len(a) < 2
            THEN [b EXCEPT !.pc = "done", !.exit = 1, !.err = "usage"]
            ELSE IF has_o /\ PositionO(a) + 1 > Len(a)
            THEN \* args[pos + 1] out of bounds: the thread panics, status 101
                 [b EXCEPT !.pc = "done", !.exit = 101, !.err = "panic",
                           !.main_exe = a[2]]
            ELSE LET parsed == [b EXCEPT !.main_exe = a[2],
                                  !.output = IF has_o THEN a[PositionO(a) + 1]
                                             ELSE "bundled_app",
                                  !.resource_dirs = ParseDirs(a, 3),
                                  !.stdout = <<"AppBinder v1.0", "Packaging">>]
                 IN IF ~Exists(fs, <<a[2]>>)
                    THEN [parsed EXCEPT !.pc = "done", !.exit = 1, !.err = "not found"]
                    ELSE [parsed EXCEPT !.pc = "create_dir_all"]]
       /\ UNCHANGED <<fs, launcher, runs, produced>>

\* fs::create_dir_all(temp_dir), line 73
BCreateDirAll(p, ok) ==
    LET b == Env(bundler[p], ok)
    IN /\ b.pc = "create_dir_all"
       /\ IF ok /\ ~IsFile(fs, temp_dir)
          THEN /\ fs' = IF Exists(fs, temp_dir) THEN fs ELSE Put(fs, temp_dir, Dir(<<>>))
               /\ bundler' = [bundler EXCEPT ![p] = [b EXCEPT !.pc = "write_launcher_c"]]
          ELSE /\ fs' = fs
               /\ bundler' = [bundler EXCEPT ![p] = Failed(b, "io")]
       /\ UNCHANGED <<launcher, runs, produced>>

\* fs::write("temp_build/launcher.c", launcher_c), line 76
BWriteLauncherC(p, ok) ==
    LET b == Env(bundler[p], ok)
        q == temp_dir \o <<"launcher.c">>
    IN /\ b.pc = "write_launcher_c"
       /\ IF ok /\ IsDir(fs, temp_dir) /\ ~IsDir(fs, q)
          THEN /\ fs' = Put(fs, q, File(LauncherC))
               /\ bundler' = [bundler EXCEPT ![p] = [b EXCEPT !.pc = "gcc"]]
          ELSE /\ fs' = fs
               /\ bundler' = [bundler EXCEPT ![p] = Failed(b, "io")]
       /\ UNCHANGED <<launcher, runs, produced>>

\* gcc -o temp_build/launcher temp_build/launcher.c -lz, lines 80-93
BGcc(p, ok, stub) ==
    LET b == [Env(bundler[p], ok) EXCEPT !.tools = @ \cup {"gcc"},
                                         !.stdout = Append(@, "Compiling launcher...")]
    IN /\ b.pc = "gcc"
       /\ IF ok /\ IsFile(fs, temp_dir \o <<"launcher.c">>)
          THEN /\ fs' = Put(fs, temp_dir \o <<"launcher">>, File(stub))
               /\ bundler' = [bundler EXCEPT ![p] =
                                [b EXCEPT !.pc = "create_structure", !.stub = stub]]
          ELSE /\ fs' = fs
               /\ bundler' = [bundler EXCEPT ![p] = Failed(b, "Failed to compile launcher")]
       /\ UNCHANGED <<launcher, runs, produced>>

\* create_resource_package: fs::create_dir_all(temp_structure), line 147
BCreateStructure(p, ok) ==
    LET b == [Env(bundler[p], ok) EXCEPT !.stdout = Append(@, "Creating resource package...")]
    IN /\ b.pc = "create_structure"
       /\ IF ok /\ ~IsFile(fs, temp_structure)
          THEN /\ fs' = IF Exists(fs, temp_structure) THEN fs
                        ELSE Put(fs, temp_structure, Dir(<<>>))
               /\ bundler' = [bundler EXCEPT ![p] = [b EXCEPT !.pc = "copy_main"]]
          ELSE /\ fs' = fs
               /\ bundler' = [bundler EXCEPT ![p] = Failed(b, "io")]
       /\ UNCHANGED <<launcher, runs, produced>>

\* fs::copy(main_exe, "temp_structure/sekai.x86_64"), line 151
BCopyMain(p, ok) ==
    LET b == Env(bundler[p], ok)
        q == temp_structure \o <<"sekai.x86_64">>
    IN /\ b.pc = "copy_main"
       /\ IF ok /\ IsFile(fs, <<b.main_exe>>) /\ IsDir(fs, temp_structure) /\ ~IsDir(fs, q)
          THEN /\ fs' = Put(fs, q, File(fs[<<b.main_exe>>].d))
               /\ bundler' = [bundler EXCEPT ![p] = [b EXCEPT !.pc = "copy_dirs", !.di = 1]]
          ELSE /\ fs' = fs
               /\ bundler' = [bundler EXCEPT ![p] = Failed(b, "io")]
       /\ UNCHANGED <<launcher, runs, produced>>

\* one iteration of the loop over resource_dirs, lines 154-164:
\* cp -r dir temp_structure/ for a directory, nothing for any other path
BCopyDir(p, ok) ==
    LET b0 == bundler[p]
        dir == b0.resource_dirs[b0.di]
        q == temp_structure \o <<dir>>
    IN /\ b0.pc = "copy_dirs"
       /\ b0.di <= Len(b0.resource_dirs)
       /\ IF IsResourceDir(fs, dir)
          THEN LET b == [Env(b0, ok) EXCEPT !.tools = @ \cup {"cp"}]
               IN IF ok /\ IsDir(fs, temp_structure) /\ ~IsFile(fs, q)
                  THEN /\ fs' = Put(fs, q, fs[<<dir>>])
                       /\ bundler' = [bundler EXCEPT ![p] = [b EXCEPT !.di = @ + 1]]
                  ELSE /\ fs' = fs
                       /\ bundler' = [bundler EXCEPT ![p] =
                                        Failed(b, "Failed to copy directory")]
          ELSE /\ fs' = fs
               /\ bundler' = [bundler EXCEPT ![p] = [b0 EXCEPT !.di = @ + 1]]
       /\ UNCHANGED <<launcher, runs, produced>>

\* tar -czf temp_build/resources.tar.gz -C temp_structure . , lines 167-175
BTar(p, ok) ==
    LET b == [Env(bundler[p], ok) EXCEPT !.tools = @ \cup {"tar"}]
        q == temp_dir \o <<"resources.tar.gz">>
    IN /\ b.pc = "copy_dirs"
       /\ b.di > Len(b.resource_dirs)
       /\ IF ok /\ IsDir(fs, temp_structure) /\ IsDir(fs, temp_dir)
          THEN /\ fs' = Put(fs, q, File(TarCreate(Tree(fs, temp_structure))))
               /\ bundler' = [bundler EXCEPT ![p] = [b EXCEPT !.pc = "remove_structure"]]
          ELSE /\ fs' = fs
               /\ bundler' = [bundler EXCEPT ![p] =
                                Failed(b, "Failed to create resource package")]
       /\ UNCHANGED <<launcher, runs, produced>>

\* fs::remove_dir_all(temp_structure), line 178
BRemoveStructure(p, ok) ==
    LET b == Env(bundler[p], ok)
    IN /\ b.pc = "remove_structure"
       /\ IF ok /\ IsDir(fs, temp_structure)
          THEN /\ fs' = RemoveAll(fs, temp_structure)
               /\ bundler' = [bundler EXCEPT ![p] = [b EXCEPT !.pc = "read_launcher"]]
          ELSE /\ fs' = fs
               /\ bundler' = [bundler EXCEPT ![p] = Failed(b, "io")]
       /\ UNCHANGED <<launcher, runs, produced>>

\* fs::read("temp_build/launcher"), line 101
BReadLauncher(p, ok) ==
    LET b == Env(bundler[p], ok)
        q == temp_dir \o <<"launcher">>
    IN /\ b.pc = "read_launcher"
       /\ bundler' = [bundler EXCEPT ![p] =
            IF ok /\ IsFile(fs, q)
            THEN [b EXCEPT !.pc = "read_resources", !.launcher_binary = fs[q].d]
            ELSE Failed(b, "io")]
       /\ UNCHANGED <<fs, launcher, runs, produced>>

\* fs::read(&resource_file), line 102
BReadResources(p, ok) ==
    LET b == Env(bundler[p], ok)
        q == temp_dir \o <<"resources.tar.gz">>
    IN /\ b.pc = "read_resources"
       /\ bundler' = [bundler EXCEPT ![p] =
            IF ok /\ IsFile(fs, q)
            THEN [b EXCEPT !.pc = "create_output", !.resource_data = fs[q].d]
            ELSE Failed(b, "io")]
       /\ UNCHANGED <<fs, launcher, runs, produced>>

\* fs::File::create(output_file), line 108: the file is created or truncated
BCreateOutput(p, ok) ==
    LET b == [Env(bundler[p], ok) EXCEPT !.stdout = Append(@, "Creating final executable...")]
        q == <<b.output>>
    IN /\ b.pc = "create_output"
       /\ IF ok /\ ~IsDir(fs, q)
          THEN /\ fs' = Put(fs, q, File(<<>>))
               /\ produced' = [x \in DOMAIN produced \ {b.output} |-> produced[x]]
               /\ bundler' = [bundler EXCEPT ![p] = [b EXCEPT !.pc = "write_launcher"]]
          ELSE /\ fs' = fs
               /\ produced' = produced
               /\ bundler' = [bundler EXCEPT ![p] = Failed(b, "io")]
       /\ UNCHANGED <<launcher, runs>>

\* final_exe.write_all(bytes): the bytes go to the end of the open file
WriteAll(f, q, bytes) == IF IsFile(f, q) THEN Put(f, q, File(f[q].d \o bytes)) ELSE f

\* final_exe.write_all(&launcher_binary), line 111
BWriteLauncher(p, ok) ==
    LET b == Env(bundler[p], ok)
    IN /\ b.pc = "write_launcher"
       /\ IF ok
          THEN /\ fs' = WriteAll(fs, <<b.output>>, b.launcher_binary)
               /\ bundler' = [bundler EXCEPT ![p] = [b EXCEPT !.pc = "write_resources"]]
          ELSE /\ fs' = fs
               /\ bundler' = [bundler EXCEPT ![p] = Failed(b, "io")]
       /\ UNCHANGED <<launcher, runs, produced>>

\* final_exe.write_all(&resource_data), line 117
BWriteResources(p, ok) ==
    LET b == Env(bundler[p], ok)
    IN /\ b.pc = "write_resources"
       /\ IF ok
          THEN /\ fs' = WriteAll(fs, <<b.output>>, b.resource_data)
               /\ bundler' = [bundler EXCEPT ![p] = [b EXCEPT !.pc = "write_offset"]]
          ELSE /\ fs' = fs
               /\ bundler' = [bundler EXCEPT ![p] = Failed(b, "io")]
       /\ UNCHANGED <<launcher, runs, produced>>

\* a faulty resource_offset: taken after the archive is written
resource_offset_AfterArchive(b) == Len(b.launcher_binary) + Len(b.resource_data)

\* let resource_offset = launcher_binary.len(), line 114
resource_offset(b) == Len(b.launcher_binary)

\* final_exe.write_all(&(resource_offset as u64).to_le_bytes()), line 120
BWriteOffset(p, ok) ==
    LET b == Env(bundler[p], ok)
    IN /\ b.pc = "write_offset"
       /\ IF ok
          THEN /\ fs' = WriteAll(fs, <<b.output>>, to_le_bytes(resource_offset(b)))
               /\ bundler' = [bundler EXCEPT ![p] = [b EXCEPT !.pc = "set_permissions"]]
          ELSE /\ fs' = fs
               /\ bundler' = [bundler EXCEPT ![p] = Failed(b, "io")]
       /\ UNCHANGED <<launcher, runs, produced>>

\* fs::metadata(output_file) and fs::set_permissions(0o755), lines 127-129
BSetPermissions(p, ok) ==
    LET b == Env(bundler[p], ok)
    IN /\ b.pc = "set_permissions"
       /\ bundler' = [bundler EXCEPT ![p] =
            IF ok /\ Exists(fs, <<b.output>>)
            THEN [b EXCEPT !.pc = "remove_dir_all"]
            ELSE Failed(b, "io")]
       /\ UNCHANGED <<fs, launcher, runs, produced>>

\* fs::remove_dir_all(temp_dir), line 133, then Ok(()): main prints the
\* success message and returns (status 0), lines 53-55
BRemoveDirAll(p, ok) ==
    LET b == Env(bundler[p], ok)
    IN /\ b.pc = "remove_dir_all"
       /\ IF ok /\ IsDir(fs, temp_dir)
          THEN /\ fs' = RemoveAll(fs, temp_dir)
               /\ produced' = [x \in DOMAIN produced \cup {b.output} |->
                                 IF x = b.output THEN InputsOf(b) ELSE produced[x]]
               /\ bundler' = [bundler EXCEPT ![p] =
                                [b EXCEPT !.pc = "done", !.exit = 0,
                                          !.stdout = Append(@, "Successfully created")]]
          ELSE /\ fs' = fs
               /\ produced' = produced
               /\ bundler' = [bundler EXCEPT ![p] = Failed(b, "io")]
       /\ UNCHANGED <<launcher, runs>>

\* the process is gone: nothing of it is left but the file system
BReap(p) ==
    /\ bundler[p].pc = "done"
    /\ bundler' = [bundler EXCEPT ![p] = IdleBundler]
    /\ UNCHANGED <<fs, launcher, runs, produced>>

(***************************************************************************)
(* The Launcher Stub: main of the C program of generate_launcher_c.        *)
(* argv[k] of the source is argv[k + 1] here, exec_args[k] is              *)
(* exec_args[k + 1].                                                       *)
(***************************************************************************)
\* the names mkdtemp("/tmp/bundled_app_XXXXXX") can produce
TmpNames == {"/tmp/bundled_app_a", "/tmp/bundled_app_b"}

\* snprintf(sekai_path, ..., "%s/sekai.x86_64", temp_dir), line 286
SekaiPath(t) ==
    IF t = "/tmp/bundled_app_a" THEN "/tmp/bundled_app_a/sekai.x86_64"
    ELSE "/tmp/bundled_app_b/sekai.x86_64"

\* snprintf(path_arg, ..., "--path=%s", temp_dir), line 293
PathArg(t) ==
    IF t = "/tmp/bundled_app_a" THEN "--path=/tmp/bundled_app_a"
    ELSE "--path=/tmp/bundled_app_b"

NULL == "(null)"
Uninit == "(uninitialized)"
NoOffset == <<>>

IdleLauncher ==
    [pc |-> "idle", argv |-> <<>>, exe_path |-> "", temp_dir |-> "",
     exe_fd |-> "none", file_size |-> 0, offset |-> NoOffset, pos |-> 0,
     remaining |-> 0, exec_args |-> <<>>, i |-> 0, j |-> 0, exit |-> -1,
     stdout |-> <<>>, system |-> {}, execv |-> <<>>]

argc(L) == Len(L.argv)

BundlersQuiet == \A p \in Procs : bundler[p].pc \in {"idle", "off"}

\* return 1 from main
Exit1(L) == [L EXCEPT !.pc = "exited", !.exit = 1]

\* a produced Bundle File is run with arguments tail; launches come after
\* the Bundler invocations of a behaviour (BStart requires NoLaunch)
LStart(l, path, tail) ==
    /\ launcher[l].pc = "idle"
    /\ BundlersQuiet
    /\ path \in DOMAIN produced
    /\ IsFile(fs, <<path>>)
    /\ launcher' = [launcher EXCEPT ![l] =
                      [IdleLauncher EXCEPT !.pc = "main", !.argv = <<path>> \o tail]]
    /\ UNCHANGED <<fs, bundler, runs, produced>>

\* a faulty IsVersionCall: the flag is looked for one argument too far
IsVersionCall_NextArg(L) == argc(L) > 2 /\ L.argv[3] = "--version"

\* argc > 1 && strcmp(argv[1], "--version") == 0, line 194
IsVersionCall(L) == argc(L) > 1 /\ L.argv[2] = "--version"

\* lines 194-197
LVersion(l) ==
    LET L == launcher[l]
    IN /\ L.pc = "main"
       /\ launcher' = [launcher EXCEPT ![l] =
            IF IsVersionCall(L)
            THEN [L EXCEPT !.pc = "exited", !.exit = 0,
                           !.stdout = Append(@, "bundled app v1.0\n")]
            ELSE [L EXCEPT !.pc = "readlink"]]
       /\ UNCHANGED <<fs, bundler, runs, produced>>

\* readlink("/proc/self/exe"), lines 201-206
LReadlink(l) ==
    LET L == launcher[l]
    IN /\ L.pc = "readlink"
       /\ launcher' = [launcher EXCEPT ![l] =
                         [L EXCEPT !.pc = "mkdtemp", !.exe_path = L.argv[1]]]
       /\ UNCHANGED <<fs, bundler, runs, produced>>

\* mkdtemp(temp_template), lines 209-214: a directory that did not exist
LMkdtemp(l, name) ==
    LET L == launcher[l]
    IN /\ L.pc = "mkdtemp"
       /\ IF \A t \in TmpNames : Exists(fs, <<t>>)
          THEN /\ fs' = fs
               /\ launcher' = [launcher EXCEPT ![l] = Exit1(L)]
          ELSE /\ ~Exists(fs, <<name>>)
               /\ fs' = Put(fs, <<name>>, Dir(<<>>))
               /\ launcher' = [launcher EXCEPT ![l] =
                                 [L EXCEPT !.pc = "open", !.temp_dir = name]]
       /\ UNCHANGED <<bundler, runs, produced>>

\* open(exe_path, O_RDONLY), lines 217-221
LOpen(l) ==
    LET L == launcher[l]
    IN /\ L.pc = "open"
       /\ launcher' = [launcher EXCEPT ![l] =
            IF IsFile(fs, <<L.exe_path>>)
            THEN [L EXCEPT !.pc = "fstat", !.exe_fd = "open"]
            ELSE Exit1(L)]
       /\ UNCHANGED <<fs, bundler, runs, produced>>

\* the bytes of the open executable
ExeBytes(L) == fs[<<L.exe_path>>].d

\* fstat(exe_fd, &st), lines 224-230
LFstat(l) ==
    LET L == launcher[l]
    IN /\ L.pc = "fstat"
       /\ launcher' = [launcher EXCEPT ![l] =
                         [L EXCEPT !.pc = "lseek_trailer", !.file_size = Len(ExeBytes(L))]]
       /\ UNCHANGED <<fs, bundler, runs, produced>>

\* lseek(exe_fd, file_size - 8, SEEK_SET), lines 234-238: -1 for a negative
\* position
LSeekTrailer(l) ==
    LET L == launcher[l]
    IN /\ L.pc = "lseek_trailer"
       /\ launcher' = [launcher EXCEPT ![l] =
            IF L.file_size - 8 < 0
            THEN [Exit1(L) EXCEPT !.exe_fd = "closed"]
            ELSE [L EXCEPT !.pc = "read_offset", !.pos = L.file_size - 8]]
       /\ UNCHANGED <<fs, bundler, runs, produced>>

\* read(exe_fd, &offset, 8) != 8, lines 239-243
LReadOffset(l) ==
    LET L == launcher[l]
    IN /\ L.pc = "read_offset"
       /\ launcher' = [launcher EXCEPT ![l] =
            IF Len(ExeBytes(L)) - L.pos >= 8
            THEN [L EXCEPT !.pc = "lseek_offset", !.pos = L.pos + 8,
                           !.offset = SubSeq(ExeBytes(L), L.pos + 1, L.pos + 8)]
            ELSE [Exit1(L) EXCEPT !.exe_fd = "closed"]]
       /\ UNCHANGED <<fs, bundler, runs, produced>>

\* lseek(exe_fd, offset, SEEK_SET), lines 246-250: the uint64_t is taken as
\* off_t; a position past the end of the file is allowed
LSeekOffset(l) ==
    LET L == launcher[l]
    IN /\ L.pc = "lseek_offset"
       /\ launcher' = [launcher EXCEPT ![l] =
            IF IsNeg64(L.offset)
            THEN [Exit1(L) EXCEPT !.exe_fd = "closed"]
            ELSE [L EXCEPT !.pc = "open_resources",
                           !.pos = IF IsSmall64(L.offset) THEN Val64(L.offset)
                                   ELSE L.file_size]]
       /\ UNCHANGED <<fs, bundler, runs, produced>>

\* off_t remaining = file_size - 8 - offset, line 264: computed in uint64_t
\* and converted to off_t.  For an offset of 2^24 or more (below 2^63) the
\* result is negative; only its sign is used.
Remaining(file_size, offset) ==
    IF IsSmall64(offset) THEN file_size - 8 - Val64(offset) ELSE -1

ResourcesPath(L) == <<L.temp_dir, "resources.tar.gz">>

\* open(resources_path, O_CREAT | O_WRONLY, 0644), lines 252-264
LOpenResources(l) ==
    LET L == launcher[l]
        q == ResourcesPath(L)
    IN /\ L.pc = "open_resources"
       /\ IF IsDir(fs, <<L.temp_dir>>) /\ ~IsDir(fs, q)
          THEN /\ fs' = IF Exists(fs, q) THEN fs ELSE Put(fs, q, File(<<>>))
               /\ launcher' = [launcher EXCEPT ![l] =
                                 [L EXCEPT !.pc = "copy",
                                           !.remaining = Remaining(L.file_size, L.offset)]]
          ELSE /\ fs' = fs
               /\ launcher' = [launcher EXCEPT ![l] = [Exit1(L) EXCEPT !.exe_fd = "closed"]]
       /\ UNCHANGED <<bundler, runs, produced>>

\* a faulty Capped: the last chunk is not cut at the trailer
Capped_Never(bytes_read, remaining) == bytes_read

\* if (bytes_read > remaining) bytes_read = remaining, line 266
Capped(bytes_read, remaining) == IF bytes_read > remaining THEN remaining ELSE bytes_read

\* one iteration of the copy loop, lines 265-269: read returns n > 0 bytes
\* (at most sizeof(buffer), at most what the file still holds)
LCopy(l, n) ==
    LET L == launcher[l]
        bytes_read == Capped(n, L.remaining)
    IN /\ L.pc = "copy"
       /\ L.remaining > 0
       /\ n >= 1 /\ n <= BufSize /\ n <= Len(ExeBytes(L)) - L.pos
       /\ fs' = WriteAll(fs, ResourcesPath(L), SubSeq(ExeBytes(L), L.pos + 1, L.pos + bytes_read))
       /\ launcher' = [launcher EXCEPT ![l] =
                         [L EXCEPT !.pos = L.pos + n, !.remaining = L.remaining - bytes_read]]
       /\ UNCHANGED <<bundler, runs, produced>>

\* the loop ends (remaining <= 0, or read returns 0 at the end of the file);
\* close(exe_fd); close(resources_fd), lines 265, 271-272
LCopyEnd(l) ==
    LET L == launcher[l]
    IN /\ L.pc = "copy"
       /\ L.remaining <= 0 \/ Len(ExeBytes(L)) - L.pos <= 0
       /\ launcher' = [launcher EXCEPT ![l] = [L EXCEPT !.pc = "extract", !.exe_fd = "closed"]]
       /\ UNCHANGED <<fs, bundler, runs, produced>>

\* system("cd 'temp_dir' && tar -xzf resources.tar.gz"), lines 275-281
LExtract(l) ==
    LET L0 == launcher[l]
        L == [L0 EXCEPT !.system = @ \cup {"tar -xzf"}]
        q == ResourcesPath(L)
        r == IF IsFile(fs, q) THEN TarExtract(fs[q].d) ELSE [ok |-> FALSE, tree |-> EmptyTree]
    IN /\ L.pc = "extract"
       /\ IF r.ok
          THEN /\ fs' = PutTree(fs, <<L.temp_dir>>, r.tree)
               /\ launcher' = [launcher EXCEPT ![l] = [L EXCEPT !.pc = "unlink"]]
          ELSE /\ fs' = fs
               /\ launcher' = [launcher EXCEPT ![l] = Exit1(L)]
       /\ UNCHANGED <<bundler, runs, produced>>

\* unlink(resources_path), line 282
LUnlink(l) ==
    LET L == launcher[l]
    IN /\ L.pc = "unlink"
       /\ fs' = RemovePath(fs, ResourcesPath(L))
       /\ launcher' = [launcher EXCEPT ![l] = [L EXCEPT !.pc = "chmod"]]
       /\ UNCHANGED <<bundler, runs, produced>>

\* chmod(sekai_path, 0755), lines 285-289
LChmod(l) ==
    LET L == launcher[l]
    IN /\ L.pc = "chmod"
       /\ launcher' = [launcher EXCEPT ![l] = [L EXCEPT !.pc = "exec_args"]]
       /\ UNCHANGED <<fs, bundler, runs, produced>>

\* char *exec_args[argc + 3]; exec_args[0], exec_args[1]; j = 2, lines 292-300
LExecArgs(l) ==
    LET L == launcher[l]
    IN /\ L.pc = "exec_args"
       /\ launcher' = [launcher EXCEPT ![l] =
            [L EXCEPT !.pc = "for",
                      !.exec_args = [k \in 1..(argc(L) + 3) |->
                                       IF k = 1 THEN SekaiPath(L.temp_dir)
                                       ELSE IF k = 2 THEN PathArg(L.temp_dir)
                                       ELSE Uninit],
                      !.j = 2, !.i = 1]]
       /\ UNCHANGED <<fs, bundler, runs, produced>>

\* a faulty Forwarded: no argument is filtered out
Forwarded_All(arg) == TRUE

\* strcmp(argv[i], "--version") != 0, line 302
Forwarded(arg) == arg # "--version"

\* one iteration of the for loop, lines 301-305
LFor(l) ==
    LET L == launcher[l]
    IN /\ L.pc = "for"
       /\ L.i < argc(L)
       /\ launcher' = [launcher EXCEPT ![l] =
            IF Forwarded(L.argv[L.i + 1])
            THEN [L EXCEPT !.exec_args[L.j + 1] = L.argv[L.i + 1], !.j = L.j + 1,
                           !.i = L.i + 1]
            ELSE [L EXCEPT !.i = L.i + 1]]
       /\ UNCHANGED <<fs, bundler, runs, produced>>

\* exec_args[j] = NULL, line 306
LNull(l) ==
    LET L == launcher[l]
    IN /\ L.pc = "for"
       /\ L.i >= argc(L)
       /\ launcher' = [launcher EXCEPT ![l] =
                         [L EXCEPT !.pc = "execv", !.exec_args[L.j + 1] = NULL]]
       /\ UNCHANGED <<fs, bundler, runs, produced>>

\* execv(sekai_path, exec_args), lines 308-318: the process becomes the main
\* program, or execv returns, the directory is removed and main returns 1
LExecv(l) ==
    LET L == launcher[l]
    IN /\ L.pc = "execv"
       /\ IF IsFile(fs, <<L.temp_dir, "sekai.x86_64">>)
          THEN /\ fs' = fs
               /\ launcher' = [launcher EXCEPT ![l] =
                                 [L EXCEPT !.pc = "replaced", !.execv = L.exec_args]]
          ELSE /\ fs' = RemoveAll(fs, <<L.temp_dir>>)
               /\ launcher' = [launcher EXCEPT ![l] =
                                 [Exit1(L) EXCEPT !.system = @ \cup {"rm -rf"}]]
       /\ UNCHANGED <<bundler, runs, produced>>

(***************************************************************************)
(* Specifications.                                                         *)
(***************************************************************************)
NoBundles == [x \in {} |-> [E |-> <<>>, D |-> EmptyTree]]

BundlerStep(p, oks) ==
    \/ BMain(p)
    \/ \E ok \in oks : BCreateDirAll(p, ok)
    \/ \E ok \in oks : BWriteLauncherC(p, ok)
    \/ \E ok \in oks, stub \in Stubs : BGcc(p, ok, stub)
    \/ \E ok \in oks : BCreateStructure(p, ok)
    \/ \E ok \in oks : BCopyMain(p, ok)
    \/ \E ok \in oks : BCopyDir(p, ok)
    \/ \E ok \in oks : BTar(p, ok)
    \/ \E ok \in oks : BRemoveStructure(p, ok)
    \/ \E ok \in oks : BReadLauncher(p, ok)
    \/ \E ok \in oks : BReadResources(p, ok)
    \/ \E ok \in oks : BCreateOutput(p, ok)
    \/ \E ok \in oks : BWriteLauncher(p, ok)
    \/ \E ok \in oks : BWriteResources(p, ok)
    \/ \E ok \in oks : BWriteOffset(p, ok)
    \/ \E ok \in oks : BSetPermissions(p, ok)
    \/ \E ok \in oks : BRemoveDirAll(p, ok)
    \/ BReap(p)

LauncherStep(l) ==
    \/ LVersion(l)
    \/ LReadlink(l)
    \/ \E name \in TmpNames : LMkdtemp(l, name)
    \/ LOpen(l)
    \/ LFstat(l)
    \/ LSeekTrailer(l)
    \/ LReadOffset(l)
    \/ LSeekOffset(l)
    \/ LOpenResources(l)
    \/ \E n \in 1..BufSize : LCopy(l, n)
    \/ LCopyEnd(l)
    \/ LExtract(l)
    \/ LUnlink(l)
    \/ LChmod(l)
    \/ LExecArgs(l)
    \/ LFor(l)
    \/ LNull(l)
    \/ LExecv(l)

Off(r) == [r EXCEPT !.pc = "off"]

(***************************************************************************)
(* Spec: one Bundler invocation with any command line of up to MaxArgs     *)
(* arguments, every step of which can fail.  It starts in a working        *)
(* directory that is either clean or holds what an earlier invocation      *)
(* whose archiver failed has left (SpecRuns reaches that state).           *)
(***************************************************************************)
StaleFS ==
    [q \in DOMAIN InitFS \cup {temp_dir, temp_dir \o <<"launcher.c">>,
                               temp_dir \o <<"launcher">>, temp_structure,
                               temp_structure \o <<"sekai.x86_64">>,
                               temp_structure \o <<"res">>} |->
        IF q \in DOMAIN InitFS THEN InitFS[q]
        ELSE IF q = temp_dir \o <<"launcher.c">> THEN File(LauncherC)
        ELSE IF q = temp_dir \o <<"launcher">> THEN File(<<127>>)
        ELSE IF q = temp_structure \o <<"sekai.x86_64">> THEN File(AppBytes)
        ELSE IF q = temp_structure \o <<"res">> THEN Dir(ResBytes)
        ELSE Dir(<<>>)]

Init ==
    /\ fs \in {InitFS, StaleFS}
    /\ bundler = [p \in Procs |-> IF p = 1 THEN IdleBundler ELSE Off(IdleBundler)]
    /\ launcher = [l \in Procs |-> Off(IdleLauncher)]
    /\ runs = 0
    /\ produced = NoBundles

Next ==
    \/ \E p \in Procs, cmd \in CmdLines : BStart(p, cmd, 1)
    \/ \E p \in Procs : BundlerStep(p, BOOLEAN)

Spec == Init /\ [][Next]_vars

(***************************************************************************)
(* SpecRuns: up to MaxRuns invocations, one after the other, each with a   *)
(* well-formed command line and steps that can fail; then a produced       *)
(* Bundle File is launched.                                                *)
(***************************************************************************)
RunCmds == {<<"app">>, <<"app", "res">>, <<"app", "nope", "res">>, <<"app", "-o", "nope">>}

\* the arguments a Bundle File is launched with in SpecRuns and SpecConc
FewTails == {<<>>, <<"val">>}

InitRuns ==
    /\ fs = InitFS
    /\ bundler = [p \in Procs |-> IF p = 1 THEN IdleBundler ELSE Off(IdleBundler)]
    /\ launcher = [l \in Procs |-> IF l = 1 THEN IdleLauncher ELSE Off(IdleLauncher)]
    /\ runs = 0
    /\ produced = NoBundles

NextRuns ==
    \/ \E p \in Procs, cmd \in RunCmds : BStart(p, cmd, MaxRuns)
    \/ \E p \in Procs : BundlerStep(p, BOOLEAN)
    \/ \E l \in Procs, path \in DOMAIN produced, tail \in FewTails : LStart(l, path, tail)
    \/ \E l \in Procs : LauncherStep(l)

SpecRuns == InitRuns /\ [][NextRuns]_vars

(***************************************************************************)
(* SpecConc: two Bundler invocations in the same working directory, with   *)
(* different resources and outputs, their steps interleaved and no step    *)
(* failing on its own; then two launches of a produced Bundle File, their  *)
(* steps interleaved.                                                      *)
(***************************************************************************)
ConcCmd(p) == IF p = 1 THEN <<"app">> ELSE <<"app", "res", "-o", "nope">>

InitConc ==
    /\ fs = InitFS
    /\ bundler = [p \in Procs |-> IdleBundler]
    /\ launcher = [l \in Procs |-> IdleLauncher]
    /\ runs = 0
    /\ produced = NoBundles

NextConc ==
    \/ \E p \in Procs : BStart(p, ConcCmd(p), Cardinality(Procs))
    \/ \E p \in Procs : BundlerStep(p, {TRUE})
    \/ \E l \in Procs, path \in DOMAIN produced : LStart(l, path, <<"val">>)
    \/ \E l \in Procs : LauncherStep(l)

SpecConc == InitConc /\ [][NextConc]_vars

(***************************************************************************)
(* SpecLaunch: one launch, with any arguments, of a file made of a stub,   *)
(* a payload and eight trailing bytes: Bundle Files, and files whose       *)
(* payload or trailer is malformed.                                        *)
(***************************************************************************)
Tails == UNION {[1..n -> {"--version", "--flag", "val"}] : n \in 0..MaxArgv}

SekaiOnly == [n \in {"sekai.x86_64"} |-> File(AppBytes)]
SekaiRes == [n \in {"sekai.x86_64", "res"} |-> IF n = "res" THEN Dir(ResBytes) ELSE File(AppBytes)]
ResOnly == [n \in {"res"} |-> Dir(ResBytes)]

Payloads == {TarCreate(SekaiOnly), TarCreate(SekaiRes), TarCreate(ResOnly), <<>>, <<31, 7>>}

\* a trailer for a file of n bytes before it: every offset up to one past
\* the payload, an offset that is negative as off_t, an offset of 2^24
Trailers(n) == {to_le_bytes(k) : k \in 0..(n + 1)}
                 \cup {<<0, 0, 0, 0, 0, 0, 0, 128>>, <<0, 0, 0, 1, 0, 0, 0, 0>>}

LaunchFiles ==
    {<<127, 69>>} \cup
    UNION {UNION {{s \o a \o t : t \in Trailers(Len(s) + Len(a))} : a \in Payloads} :
           s \in Stubs \cup {<<>>}}

InitLaunch ==
    /\ \E d \in LaunchFiles : fs = [q \in {<<"bundle">>} |-> File(d)]
    /\ bundler = [p \in Procs |-> Off(IdleBundler)]
    /\ launcher = [l \in Procs |-> IF l = 1 THEN IdleLauncher ELSE Off(IdleLauncher)]
    /\ runs = 0
    /\ produced = [x \in {"bundle"} |-> [E |-> <<>>, D |-> EmptyTree]]

NextLaunch ==
    \/ \E l \in Procs, tail \in Tails : LStart(l, "bundle", tail)
    \/ \E l \in Procs : LauncherStep(l)

SpecLaunch == InitLaunch /\ [][NextLaunch]_vars

(***************************************************************************)
(* Properties.                                                             *)
(***************************************************************************)
Trailer(f) == SubSeq(f, Len(f) - 7, Len(f))

\* the tree a Bundle File made from inputs inp is to extract to
ExpectedTree(inp) ==
    [n \in {"sekai.x86_64"} \cup DOMAIN inp.D |->
        IF n = "sekai.x86_64" THEN File(inp.E) ELSE inp.D[n]]

Succeeded(b) == b.pc = "done" /\ b.exit = 0

\* C1: the output file of a successful run is the stub the compiler wrote,
\* then the archive, then exactly 8 bytes that decode (little-endian) to the
\* stub's length, so that file_size - 8 = offset + archive_length.
C1_BundleLayout ==
    \A p \in Procs :
        LET b == bundler[p]
        IN Succeeded(b) =>
             /\ IsFile(fs, <<b.output>>)
             /\ LET f == fs[<<b.output>>].d
                IN /\ Len(f) >= 8
                   /\ f = b.stub \o b.resource_data \o Trailer(f)
                   /\ Len(Trailer(f)) = 8
                   /\ IsSmall64(Trailer(f))
                   /\ Val64(Trailer(f)) = Len(b.stub)
                   /\ Len(f) - 8 = Val64(Trailer(f)) + Len(b.resource_data)
                   /\ TarExtract(b.resource_data).ok

C1_Witness ==
    \E p \in Procs :
        /\ Succeeded(bundler[p])
        /\ Len(bundler[p].stub) = MaxStubLen
        /\ "res" \in DOMAIN TarExtract(bundler[p].resource_data).tree

\* C5: an invocation whose main-executable path does not exist exits with
\* status 1 and has done nothing: the file system is as it was and no
\* external tool was run.
C5_MissingMain ==
    \A p \in Procs :
        LET b == bundler[p]
        IN (b.pc = "done" /\ Len(b.args) >= 2 /\ b.args[2] # "-o"
              /\ ~Exists(b.fs0, <<b.args[2]>>)) =>
             /\ b.exit = 1
             /\ fs = b.fs0
             /\ b.tools = {}

\* C6: resource paths that do not exist or are not directories are skipped:
\* the staged tree that is archived has no entry for them, has every
\* resource directory and the renamed main executable, the archive is that
\* tree's, and the run succeeds unless a step fails for another reason (the
\* environment, a main executable or an output path that is a directory).
C6_SkippedPaths ==
    \A p \in Procs :
        LET b == bundler[p]
            tree == Tree(fs, temp_structure)
            f == fs[<<b.output>>].d
            packed == TarExtract(SubSeq(f, Len(b.stub) + 1, Len(f) - 8)).tree
        IN /\ b.pc = "remove_structure" =>
                /\ \A i \in 1..Len(b.resource_dirs) :
                      IF IsDir(b.fs0, <<b.resource_dirs[i]>>)
                      THEN /\ b.resource_dirs[i] \in DOMAIN tree
                           /\ tree[b.resource_dirs[i]] = b.fs0[<<b.resource_dirs[i]>>]
                      ELSE b.resource_dirs[i] \notin DOMAIN tree
                /\ "sekai.x86_64" \in DOMAIN tree
                /\ tree["sekai.x86_64"] = File(b.fs0[<<b.main_exe>>].d)
                /\ TarExtract(fs[temp_dir \o <<"resources.tar.gz">>].d) = [ok |-> TRUE, tree |-> tree]
           /\ Succeeded(b) =>
                /\ \A i \in 1..Len(b.resource_dirs) :
                      b.resource_dirs[i] \in DOMAIN packed <=> IsDir(b.fs0, <<b.resource_dirs[i]>>)
                /\ "sekai.x86_64" \in DOMAIN packed
           /\ (b.pc = "done" /\ b.err \notin {"usage", "panic", "not found"}
                 /\ ~b.injected /\ IsFile(b.fs0, <<b.main_exe>>) /\ ~IsDir(b.fs0, <<b.output>>))
                => b.exit = 0

C6_Witness ==
    \E p \in Procs :
        /\ Succeeded(bundler[p])
        /\ bundler[p].resource_dirs = <<"nope", "res">>
        /\ bundler[p].fs0 = InitFS

\* C7: when an invocation that passed the main-executable check terminates,
\* with success or with a failure at any step, temp_build and temp_structure
\* do not exist.
C7_TempDirsRemoved ==
    \A p \in Procs :
        LET b == bundler[p]
        IN (b.pc = "done" /\ b.err \notin {"usage", "panic", "not found"}
              /\ ~Exists(b.fs0, temp_dir) /\ ~Exists(b.fs0, temp_structure))
             => /\ ~Exists(fs, temp_dir)
                /\ ~Exists(fs, temp_structure)

\* C9: the Bundler exits with status 0 or 1 and nothing else: 0 only after
\* the complete Bundle File is written and the success message printed, to
\* the path after -o or to the default name.
C9_ExitStatus ==
    \A p \in Procs :
        LET b == bundler[p]
            a == b.args
        IN b.pc = "done" =>
             /\ b.exit \in {0, 1}
             /\ b.exit = 0 =>
                  /\ b.stdout[Len(b.stdout)] = "Successfully created"
                  /\ IsFile(fs, <<b.output>>)
                  /\ fs[<<b.output>>].d = b.stub \o b.resource_data \o to_le_bytes(Len(b.stub))
                  /\ IF \E i \in 1..Len(a) : a[i] = "-o"
                     THEN \E i \in 1..(Len(a) - 1) : a[i] = "-o" /\ b.output = a[i + 1]
                     ELSE b.output = "bundled_app"

\* C2: a launch of a Bundle File made from main executable E and resource
\* directories D1..Dn extracts to a directory whose entries are exactly
\* sekai.x86_64, with E's content, and each Di, with its content.
C2_RoundTrip ==
    \A l \in Procs :
        LET L == launcher[l]
        IN L.pc \in {"chmod", "exec_args", "for", "execv", "replaced"} =>
             Tree(fs, <<L.temp_dir>>) = ExpectedTree(produced[L.exe_path])

\* C8: concurrent runs do not interfere: each of two Bundler invocations in
\* one working directory ends as it would alone (status 0, the Bundle File
\* of its own inputs), and each of two launches of a Bundle File extracts,
\* in a directory of its own, the tree of that file.
C8_NoInterference ==
    /\ \A p \in Procs :
          LET b == bundler[p]
          IN b.pc = "done" =>
               /\ b.exit = 0
               /\ IsFile(fs, <<b.output>>)
               /\ fs[<<b.output>>].d =
                    b.stub \o TarCreate(ExpectedTree(InputsOf(b))) \o to_le_bytes(Len(b.stub))
    /\ \A l \in Procs :
          LET L == launcher[l]
          IN L.pc = "replaced" =>
               /\ \A m \in Procs \ {l} : launcher[m].temp_dir # L.temp_dir
               /\ LET f == ExeBytes(L)
                  IN Tree(fs, <<L.temp_dir>>) =
                       TarExtract(SubSeq(f, Val64(Trailer(f)) + 1, Len(f) - 8)).tree

\* what is to follow the path argument: the arguments but the --version ones
RECURSIVE WithoutVersion(_)
WithoutVersion(a) ==
    IF a = <<>> THEN <<>>
    ELSE (IF Head(a) = "--version" THEN <<>> ELSE <<Head(a)>>) \o WithoutVersion(Tail(a))

\* C3: at the hand-off the argument list is the main program's path, the
\* --path argument, the launcher's arguments in order without any
\* --version, and NULL, all within the argc + 3 slots of exec_args.
C3_ArgumentForwarding ==
    \A l \in Procs :
        LET L == launcher[l]
        IN L.pc \in {"execv", "replaced"} =>
             /\ L.j + 1 <= argc(L) + 3
             /\ Len(L.exec_args) = argc(L) + 3
             /\ SubSeq(L.exec_args, 1, L.j + 1) =
                  <<SekaiPath(L.temp_dir), PathArg(L.temp_dir)>>
                    \o WithoutVersion(Tail(L.argv)) \o <<NULL>>
             /\ Tail(L.argv) = <<"--flag", "val", "--version">> =>
                  SubSeq(L.exec_args, 3, L.j) = <<"--flag", "val">>
             /\ argc(L) = 1 => L.j = 2
             /\ L.pc = "replaced" => L.execv = L.exec_args

C3_Witness ==
    \E l \in Procs :
        /\ launcher[l].pc = "replaced"
        /\ Tail(launcher[l].argv) = <<"--flag", "val", "--version">>

\* C4: a launch with --version as first argument prints the version string,
\* exits with status 0, and creates no temporary directory, never opens its
\* executable, runs no tool and executes nothing.
C4_VersionOnly ==
    \A l \in Procs :
        LET L == launcher[l]
        IN (L.pc \notin {"idle", "off", "main"} /\ argc(L) > 1 /\ L.argv[2] = "--version") =>
             /\ L.pc = "exited"
             /\ L.exit = 0
             /\ L.stdout = <<"bundled app v1.0\n">>
             /\ L.temp_dir = ""
             /\ L.exe_fd = "none"
             /\ L.system = {}
             /\ L.execv = <<>>
             /\ DOMAIN fs = {<<L.argv[1]>>}

C4_Witness ==
    \E l \in Procs :
        /\ launcher[l].pc = "exited"
        /\ launcher[l].exit = 0
        /\ launcher[l].argv = <<"bundle", "--version", "val">>

\* the offset of the trailer lies in the file: 0 <= offset <= file_size - 8
GoodOffset(L) == IsSmall64(L.offset) /\ Val64(L.offset) <= L.file_size - 8

C10_Range ==
    \A l \in Procs :
        LET L == launcher[l]
            f == ExeBytes(L)
            w == fs[ResourcesPath(L)].d
        IN /\ L.pc = "copy" =>
                IF GoodOffset(L)
                THEN /\ L.remaining >= 0
                     /\ Len(w) = L.file_size - 8 - Val64(L.offset) - L.remaining
                     /\ w = SubSeq(f, Val64(L.offset) + 1, Val64(L.offset) + Len(w))
                     /\ L.remaining > 0 => L.pos < L.file_size - 8
                ELSE w = <<>> /\ L.remaining < 0
           /\ L.pc = "extract" =>
                IF GoodOffset(L)
                THEN w = SubSeq(f, Val64(L.offset) + 1, L.file_size - 8)
                ELSE w = <<>>

C10_Progress ==
    \A l \in Procs :
        (launcher[l].pc = "copy" /\ launcher'[l] # launcher[l]) =>
            \/ launcher'[l].pc = "extract" /\ launcher[l].remaining <= 0
            \/ /\ launcher'[l].pc = "copy"
               /\ launcher'[l].remaining < launcher[l].remaining
               /\ launcher'[l].remaining >= 0

\* C10: for a trailer offset within the file the copy loop, whatever the
\* reads return (1 to sizeof(buffer) bytes, short or running into the
\* trailer), writes exactly the bytes at [offset, file_size - 8), in order,
\* and ends: every iteration lowers remaining, which stays at or above 0,
\* and the loop is left only at 0.  For an offset beyond file_size - 8
\* nothing is written.
C10_CopyRange == []C10_Range /\ [][C10_Progress]_vars

C10_Witness ==
    \E l \in Procs :
        LET L == launcher[l]
        IN /\ L.pc = "extract"
           /\ GoodOffset(L)
           /\ L.pos > L.file_size - 8
           /\ Len(fs[ResourcesPath(L)].d) > BufSize

====
